---- MODULE Spec2Model ----
(***************************************************************************)
(* Website Plunder: the refinement controller (routes/plunder.ts           *)
(* processJob and the LP6 harness runVerification), the shared             *)
(* BrowserRenderMCP instance, DiffTestMCP's scoring, VisionLayoutMCP's     *)
(* refine and CodegenMCP's generate.                                       *)
(*                                                                         *)
(* Conventions                                                             *)
(*  - a JavaScript string is a sequence of one-character strings;          *)
(*  - a mismatch percentage returned by DiffTestMCP.test is an integer     *)
(*    number of hundredths of a percent (6.00% is 600);                    *)
(*  - an unrounded percentage is kept exact as the pair                    *)
(*    (mismatched pixels, total pixels);                                   *)
(*  - a JavaScript number that refine multiplies by 1.1 / 0.9 is the exact *)
(*    fraction n/d;                                                        *)
(*  - objects that can be aliased (plan, section, typography) are cells    *)
(*    of a heap, referred to by address.                                   *)
(***************************************************************************)
EXTENDS Integers, Sequences, FiniteSets, TLC

VARIABLES
  pool,       \* invocations not started yet: jobs whose POST has not arrived, or
              \* "V", the run of the verification harness
  env,        \* what the outside world may answer in this run
  browser,    \* BrowserRenderMCP.browser: 0 (null) or the id of a launched browser
  browsers,   \* every browser launched so far: id -> "open" | "closed"
  pc,         \* per invocation: the await it is suspended at
  fr,         \* per invocation: the job object, the locals of its frame and the
              \* objects it allocated
  drv         \* the state of a caller that uses the library functions directly
              \* (refine, generate) instead of going through a controller

vars == <<pool, env, browser, browsers, pc, fr, drv>>

-----------------------------------------------------------------------------
(* Program constants *)

MAX_ITERATIONS == 3
DESKTOP_THRESHOLD == 6
MOBILE_THRESHOLD == 8

\* Math.round(x * 100) / 100: the number of hundredths kept
ROUND_SCALE == 100

(* Bounds of the model *)

\* size of the compared screenshots
ImgWidth == 200
ImgHeight == 150

TotalPixels == ImgWidth * ImgHeight

-----------------------------------------------------------------------------
(* DiffTestMCP: scoring *)

\* desktopMismatch <= DESKTOP_THRESHOLD on the unrounded
\* (mismatchedPixels / totalPixels) * 100
WithinThreshold(mismatched, total, threshold) ==
  mismatched * 100 <= threshold * total

\* Math.round(mismatchPercent * 100) / 100, in hundredths of a percent
RoundPercent(mismatched, total) ==
  (2 * mismatched * 100 * ROUND_SCALE + total) \div (2 * total)

\* a catch block that reports no mismatch at all
TestFailureZero ==
  [success |-> FALSE, desktopMismatch |-> 0, mobileMismatch |-> 0,
   passesThreshold |-> FALSE]

\* the catch branch of test
TestFailure ==
  [success |-> FALSE, desktopMismatch |-> 100 * ROUND_SCALE,
   mobileMismatch |-> 100 * ROUND_SCALE, passesThreshold |-> FALSE]

\* the try branch of test, for the comparator's two pixel counts
TestSuccess(md, td, mm, tm) ==
  [success |-> TRUE,
   desktopMismatch |-> RoundPercent(md, td),
   mobileMismatch |-> RoundPercent(mm, tm),
   passesThreshold |-> WithinThreshold(md, td, DESKTOP_THRESHOLD)
                       /\ WithinThreshold(mm, tm, MOBILE_THRESHOLD)]

\* test: o.ok is FALSE when renderHtml or compareScreenshots throws
test(o) ==
  IF o.ok THEN TestSuccess(o.md, o.td, o.mm, o.tm) ELSE TestFailure

\* suggestAdjustments, on the returned (rounded) mismatches
suggestAdjustments(desktopMismatch, mobileMismatch, iteration) ==
  LET dOver == desktopMismatch > DESKTOP_THRESHOLD * ROUND_SCALE
      mOver == mobileMismatch > MOBILE_THRESHOLD * ROUND_SCALE
  IN IF iteration = 1
       THEN (IF dOver THEN <<"spacing:increase", "font:larger">> ELSE <<>>)
            \o (IF mOver THEN <<"card-width:narrower", "line-height:increase">> ELSE <<>>)
     ELSE IF iteration = 2
       THEN (IF dOver THEN <<"spacing:decrease", "alignment:center">> ELSE <<>>)
            \o (IF mOver THEN <<"font:smaller", "card-width:wider">> ELSE <<>>)
     ELSE (IF dOver THEN <<"line-height:decrease">> ELSE <<>>)
          \o (IF mOver THEN <<"spacing:decrease">> ELSE <<>>)

-----------------------------------------------------------------------------
(* Helpers *)

Range(s) == {s[i] : i \in DOMAIN s}

Min(a, b) == IF a <= b THEN a ELSE b

\* F applied to the value of x: x is evaluated once, however often F uses it
Bind(x, F(_)) == CHOOSE r \in {F(v) : v \in {x}} : TRUE

-----------------------------------------------------------------------------
(* VisionLayoutMCP.refine, on heap objects *)

\* adjustment.includes(keyword), for the tokens that are passed around
TokenKeywords(adjustment) ==
  CASE adjustment = "spacing:increase"     -> {"spacing", "increase"}
    [] adjustment = "spacing:decrease"     -> {"spacing"}
    [] adjustment = "font:larger"          -> {"font", "larger"}
    [] adjustment = "font:smaller"         -> {"font"}
    [] adjustment = "line-height:increase" -> {"line-height", "increase"}
    [] adjustment = "line-height:decrease" -> {"line-height"}
    [] adjustment = "card-width:narrower"  -> {"card-width"}
    [] adjustment = "card-width:wider"     -> {"card-width", "wider"}
    [] adjustment = "alignment:center"     -> {"alignment", "center"}
    [] adjustment = "alignment:left"       -> {"alignment"}
    [] adjustment = "spacing font"         -> {"spacing", "font"}
    [] OTHER                               -> {}

Includes(adjustment, keyword) == keyword \in TokenKeywords(adjustment)

\* A CSS value that starts with a number: n/d followed by tail; kind "text" is
\* a non-empty string parseFloat cannot read, kind "absent" is undefined or ''.
Num(n, d, tail) == [kind |-> "num", n |-> n, d |-> d, tail |-> tail]
TextValue(s)    == [kind |-> "text", n |-> 0, d |-> 1, tail |-> s]
AbsentValue     == [kind |-> "absent", n |-> 0, d |-> 1, tail |-> ""]

\* a copy of the plan object only ({ ...layoutPlan }): the typography and the
\* sections stay those of the original
JsonCloneShallow(h, p) == [heap |-> h \o <<h[p]>>, plan |-> Len(h) + 1]

\* JSON.parse(JSON.stringify(layoutPlan)): fresh typography, section and plan
\* objects appended to the heap; the result's plan is the last cell
JsonClone(h, p) ==
  LET plan == h[p]
      n    == Len(plan.sections)
      base == Len(h)
      copy == [plan EXCEPT !.typography = base + 1,
                           !.sections = [i \in 1..n |-> base + 1 + i]]
  IN [heap |-> h \o <<h[plan.typography]>>
                 \o [i \in 1..n |-> h[plan.sections[i]]]
                 \o <<copy>>,
      plan |-> base + n + 2]

\* section.styles.padding = `${current * 1.1}rem 1rem`
ScalePadding(padding) ==
  LET usable == padding.kind = "num" /\ padding.n # 0
      n == IF usable THEN padding.n ELSE 2
      d == IF usable THEN padding.d ELSE 1
  IN Num(n * 11, d * 10, "rem 1rem")

RefineSpacingSection(section) ==
  IF section.styles.padding.kind # "absent"
    THEN [section EXCEPT !.styles.padding = ScalePadding(@)]
    ELSE section

\* scaleFontSize: /^([\d.]+)(rem|px|em)$/, value * scale, toFixed(2);
\* a length is v hundredths of its unit, the scale is pct / 100
scaleFontSize(fontSize, pct) ==
  IF fontSize.kind = "len" /\ fontSize.unit \in {"rem", "px", "em"}
    THEN [fontSize EXCEPT !.v = (fontSize.v * pct + 50) \div 100]
    ELSE fontSize

RefineFont(typography, adjustment) ==
  LET pct == IF Includes(adjustment, "larger") THEN 105 ELSE 95
  IN [typography EXCEPT !.h1.fontSize = scaleFontSize(@, pct),
                        !.h2.fontSize = scaleFontSize(@, pct),
                        !.h3.fontSize = scaleFontSize(@, pct),
                        !.body.fontSize = scaleFontSize(@, pct)]

\* String(parseFloat(lineHeight) * scale): the unit is dropped, an unreadable
\* value becomes "NaN"
RefineLineHeight(typography, adjustment) ==
  LET lh == typography.body.lineHeight
      k  == IF Includes(adjustment, "increase") THEN 11 ELSE 9
  IN [typography EXCEPT !.body.lineHeight =
        IF lh.kind = "num" THEN Num(lh.n * k, lh.d * 10, "") ELSE TextValue("NaN")]

\* a card-width branch that also turns every offer section into an offer card
RefineCardWidthRetypes(section, adjustment) ==
  IF section.type \in {"offer-list", "offer-card"}
    THEN [section EXCEPT !.type = "offer-card",
                         !.layout.maxWidth =
                            IF Includes(adjustment, "wider") THEN "900px" ELSE "700px"]
    ELSE section

RefineCardWidthSection(section, adjustment) ==
  IF section.type \in {"offer-list", "offer-card"}
    THEN [section EXCEPT !.layout.maxWidth =
            IF Includes(adjustment, "wider") THEN "900px" ELSE "700px"]
    ELSE section

RefineAlignmentSection(section, adjustment) ==
  [section EXCEPT !.layout.align =
     IF Includes(adjustment, "center") THEN "center" ELSE "flex-start"]

\* the body of the for loop of refine, for one adjustment, on the objects the
\* plan at address p refers to
ApplyAdjustment(h, p, adjustment) ==
  LET secs == Range(h[p].sections)
      typ  == h[p].typography
      OnSection(s) ==
        LET s1 == IF Includes(adjustment, "spacing") THEN RefineSpacingSection(s) ELSE s
            s2 == IF Includes(adjustment, "card-width")
                    THEN RefineCardWidthSection(s1, adjustment) ELSE s1
        IN IF Includes(adjustment, "alignment")
             THEN RefineAlignmentSection(s2, adjustment) ELSE s2
      OnTypography(t) ==
        LET t1 == IF Includes(adjustment, "font") THEN RefineFont(t, adjustment) ELSE t
        IN IF Includes(adjustment, "line-height")
             THEN RefineLineHeight(t1, adjustment) ELSE t1
  IN [a \in DOMAIN h |->
        IF a \in secs THEN OnSection(h[a])
        ELSE IF a = typ THEN OnTypography(h[a])
        ELSE h[a]]

RECURSIVE ApplyAdjustments(_, _, _)
ApplyAdjustments(h, p, adjustments) ==
  IF adjustments = <<>> THEN h
  ELSE Bind(ApplyAdjustment(h, p, Head(adjustments)),
            LAMBDA h1 : ApplyAdjustments(h1, p, Tail(adjustments)))

\* refine(layoutPlan, adjustments): the heap after the call and the address
\* of the returned plan
refine(h, p, adjustments) ==
  Bind(JsonClone(h, p), LAMBDA c :
    [heap |-> ApplyAdjustments(c.heap, c.plan, adjustments), plan |-> c.plan])

\* the value of a plan: its objects with the addresses resolved
PlanValue(h, p) ==
  [plan |-> [h[p] EXCEPT !.sections = <<>>, !.typography = 0],
   typography |-> h[h[p].typography],
   sections |-> [i \in 1..Len(h[p].sections) |-> h[h[p].sections[i]]]]

-----------------------------------------------------------------------------
(* CodegenMCP.generate *)
(* The emitted document is kept as its parts in document order: each tag   *)
(* with its attribute values and its text, every value being exactly the   *)
(* characters written between the quotes or the tags.                      *)

RECURSIVE ReplaceAll(_, _, _)
\* str.replace(/c/g, rep)
ReplaceAll(str, c, rep) ==
  IF str = <<>> THEN <<>>
  ELSE (IF Head(str) = c THEN rep ELSE <<Head(str)>>) \o ReplaceAll(Tail(str), c, rep)

\* the five replace calls of escapeHtml, in the order of the code
escapeHtml(str) ==
  Bind(str, LAMBDA s0 :
  Bind(ReplaceAll(s0, "&", <<"&", "a", "m", "p", ";">>), LAMBDA s1 :
  Bind(ReplaceAll(s1, "<", <<"&", "l", "t", ";">>), LAMBDA s2 :
  Bind(ReplaceAll(s2, ">", <<"&", "g", "t", ";">>), LAMBDA s3 :
  Bind(ReplaceAll(s3, "\"", <<"&", "q", "u", "o", "t", ";">>), LAMBDA s4 :
    ReplaceAll(s4, "'", <<"&", "#", "0", "3", "9", ";">>))))))

\* str.replace(/([a-z])([A-Z])/g, '$1-$2').toLowerCase(), for the style keys in use
camelToKebab(key) ==
  CASE key = "fontSize"        -> "font-size"
    [] key = "fontWeight"      -> "font-weight"
    [] key = "fontFamily"      -> "font-family"
    [] key = "backgroundColor" -> "background-color"
    [] key = "borderRadius"    -> "border-radius"
    [] key = "textAlign"       -> "text-align"
    [] key = "lineHeight"      -> "line-height"
    [] OTHER                   -> key

\* Object.entries(styles).filter(([_, v]) => v).map(([k, v]) => `${kebab(k)}: ${v}`)
StyleList(styles) ==
  LET kept == SelectSeq(styles, LAMBDA kv : kv.v # "")
  IN [i \in 1..Len(kept) |-> [k |-> camelToKebab(kept[i].k), v |-> kept[i].v]]

Attr(name, value, from) == [name |-> name, value |-> value, from |-> from]

BtnPrimary == <<"b", "t", "n", " ", "b", "t", "n", "-", "p", "r", "i", "m", "a", "r", "y">>
OfferClass == <<"o", "f", "f", "e", "r">>
Lazy       == <<"l", "a", "z", "y">>
Hash       == <<"#">>
DefaultTitle ==
  <<"P", "l", "u", "n", "d", "e", "r", "e", "d", " ", "P", "a", "g", "e">>

Node(tag, attrs, styles, text, children, depth) ==
  [tag |-> tag, attrs |-> attrs, style |-> StyleList(styles), text |-> text,
   children |-> children, depth |-> depth]

RECURSIVE generateElement(_, _)
\* attribute "from" names the field of the element the value was taken from
\* ("" for markup the generator writes itself)
generateElement(element, depth) ==
  LET kids == [i \in 1..Len(element.children) |->
                 generateElement(element.children[i], depth + 1)]
      dataAttrs == [i \in 1..Len(element.dataAttributes) |->
                      Attr("data-" \o element.dataAttributes[i].k,
                           escapeHtml(element.dataAttributes[i].v), "dataAttributes")]
      text == escapeHtml(element.content)
      type == element.type
  IN CASE type = "heading" ->
            Node(element.tag, <<>>, element.styles, text, <<>>, depth)
       [] type = "paragraph" ->
            Node("p", <<>>, element.styles, text, <<>>, depth)
       [] type = "image" ->
            Node("img",
                 <<Attr("src", element.src, "src")>>
                 \o (IF element.alt # <<>>
                       THEN <<Attr("alt", escapeHtml(element.alt), "alt")>> ELSE <<>>)
                 \o <<Attr("loading", Lazy, "")>>,
                 element.styles, <<>>, <<>>, depth)
       [] type \in {"button", "link"} ->
            Node("a",
                 <<Attr("href", IF element.href # <<>> THEN element.href ELSE Hash, "href")>>
                 \o (IF type = "button" THEN <<Attr("class", BtnPrimary, "")>> ELSE <<>>),
                 element.styles, text, <<>>, depth)
       [] type = "list" ->
            Node("ul", <<>>, element.styles, <<>>, kids, depth)
       [] type = "list-item" ->
            Node("li", <<>>, element.styles, text, <<>>, depth)
       [] type = "card" ->
            Node("div", <<Attr("class", OfferClass, "")>> \o dataAttrs,
                 element.styles, <<>>, kids, depth)
       [] type = "container" ->
            Node("div", <<>>, element.styles, <<>>, kids, depth)
       [] type = "divider" ->
            Node("hr", <<>>, element.styles, <<>>, <<>>, depth)
       [] OTHER ->
            Node("span", <<>>, element.styles, text, <<>>, depth)

\* a generateSection that writes data-offer-id for every offer section, lists
\* included
generateSectionOffers(section) ==
  [tag |-> IF section.type = "header" THEN "header"
           ELSE IF section.type = "footer" THEN "footer"
           ELSE IF section.type = "content" THEN "main"
           ELSE "section",
   className |-> section.type,
   attrs |-> IF section.type \in {"offer-card", "offer-list"}
               THEN <<Attr("data-offer-id", section.id, "id")>> ELSE <<>>,
   style |-> IF section.styles.padding.kind # "absent"
               THEN <<[k |-> "padding", v |-> section.styles.padding]>> ELSE <<>>,
   children |-> [i \in 1..Len(section.children) |->
                   generateElement(section.children[i], 2)]]

\* generateSection: tag and class from the type, data-offer-id for offer cards,
\* the section styles, the children at depth 2 inside <div class="container">
generateSection(section) ==
  LET type == section.type
      tag  == IF type = "header" THEN "header"
              ELSE IF type = "footer" THEN "footer"
              ELSE IF type = "content" THEN "main"
              ELSE "section"
  IN [tag |-> tag,
      className |-> type,
      attrs |-> IF type = "offer-card"
                  THEN <<Attr("data-offer-id", section.id, "id")>> ELSE <<>>,
      style |-> IF section.styles.padding.kind # "absent"
                  THEN <<[k |-> "padding", v |-> section.styles.padding]>> ELSE <<>>,
      children |-> [i \in 1..Len(section.children) |->
                      generateElement(section.children[i], 2)]]

\* generateCSS: the values of the plan that are written into the stylesheet
generateCSS(plan, typography) ==
  [colorScheme |-> plan.colorScheme,
   fontFamily |-> plan.globalStyles.fontFamily,
   baseSize |-> typography.baseSize,
   lineHeightBase |-> plan.globalStyles.lineHeight,
   maxWidth |-> plan.globalStyles.maxWidth,
   h1 |-> typography.h1, h2 |-> typography.h2,
   h3 |-> typography.h3, h4 |-> typography.h4,
   body |-> [fontSize |-> typography.body.fontSize,
             lineHeight |-> typography.body.lineHeight,
             marginBottom |-> typography.body.marginBottom],
   small |-> typography.small.fontSize]

RECURSIVE InsertByOrderDescending(_, _, _)
\* the insertion of a sort whose comparator is b.order - a.order
InsertByOrderDescending(h, sorted, a) ==
  IF sorted = <<>> THEN <<a>>
  ELSE IF h[Head(sorted)].order >= h[a].order
    THEN <<Head(sorted)>> \o InsertByOrderDescending(h, Tail(sorted), a)
    ELSE <<a>> \o sorted

RECURSIVE InsertByOrder(_, _, _)
\* a into the sorted address list, after every entry whose order is <= its own
InsertByOrder(h, sorted, a) ==
  IF sorted = <<>> THEN <<a>>
  ELSE IF h[Head(sorted)].order <= h[a].order
    THEN <<Head(sorted)>> \o InsertByOrder(h, Tail(sorted), a)
    ELSE <<a>> \o sorted

\* a comparator that puts every element before the one it is compared with:
\* the array comes back reversed
SortByOrderReversing(h, addrs) ==
  [i \in 1..Len(addrs) |-> addrs[Len(addrs) + 1 - i]]

RECURSIVE SortByOrder(_, _)
\* Array.prototype.sort((a, b) => a.order - b.order): stable
SortByOrder(h, addrs) ==
  IF addrs = <<>> THEN <<>>
  ELSE Bind(SortByOrder(h, SubSeq(addrs, 1, Len(addrs) - 1)),
            LAMBDA sorted : InsertByOrder(h, sorted, addrs[Len(addrs)]))

\* generate({layoutPlan, pageContent}): sort() reorders layoutPlan.sections in
\* place, so the call returns the heap as well as the document
generate(h, p, pageContent) ==
  LET title == IF pageContent.title # <<>> THEN pageContent.title ELSE DefaultTitle
  IN Bind(SortByOrder(h, h[p].sections), LAMBDA sorted :
       [heap |-> [h EXCEPT ![p].sections = sorted],
        html |-> [description |-> escapeHtml(pageContent.metaDescription),
                  title |-> escapeHtml(title),
                  css |-> generateCSS(h[p], h[h[p].typography]),
                  sections |-> [i \in 1..Len(sorted) |->
                                  generateSection(h[sorted[i]])]]])

-----------------------------------------------------------------------------
(* VisionLayoutMCP.analyze *)
(* The page body is given as the blocks the section scan matches, in scan  *)
(* order: the keywords the class attribute of its tag and its inner markup *)
(* contain, its id attribute, the length of its inner markup and the tags  *)
(* in it that one of the four element scans matches (items), in document   *)
(* order. In every scan the optional attribute group follows a greedy run  *)
(* of non-'>' characters and what follows it may match nothing, so the     *)
(* run takes the whole tag and the group never takes part in the match.    *)

Elem(id, type, tag, content, src, alt, href) ==
  [id |-> id, type |-> type, tag |-> tag, content |-> content, src |-> src,
   alt |-> alt, href |-> href, children |-> <<>>, styles |-> <<>>,
   dataAttributes |-> <<>>]

Layout(display, direction, gap, maxWidth, padding) ==
  [display |-> display, direction |-> direction, gap |-> gap,
   maxWidth |-> maxWidth, padding |-> padding, align |-> ""]

\* match[n] || '' for an optional attribute group that follows [^>]*
CapturedClasses(classAttr) == {}
CapturedText(attr) == <<>>

\* `${tag}-${elements.length}`
ElementId(tag, n) == tag \o "-" \o ToString(n)

\* the element one scan pushes for an item, as the only member of a set, or no
\* element
Pushed(item, scan, n) ==
  IF scan = "heading" /\ item.kind = "heading" /\ item.content # <<>>
    THEN {Elem(ElementId(item.tag, n), "heading", item.tag, item.content,
               <<>>, <<>>, <<>>)}
  ELSE IF scan = "paragraph" /\ item.kind = "p" /\ Len(item.content) > 10
    THEN {Elem(ElementId("p", n), "paragraph", "p", item.content, <<>>, <<>>, <<>>)}
  ELSE IF scan = "image" /\ item.kind = "img"
    THEN {Elem(ElementId("img", n), "image", "img", <<>>, item.src,
               CapturedText(item.alt), <<>>)}
  ELSE IF /\ scan = "button" /\ item.kind \in {"a", "button"}
          /\ item.content # <<>>
          /\ CapturedClasses(item.classAttr) \cap {"btn", "button", "cta"} # {}
    THEN {Elem(ElementId("btn", n), "button", "a", item.content, <<>>, <<>>,
               IF CapturedText(item.href) # <<>> THEN CapturedText(item.href)
               ELSE <<"#">>)}
  ELSE {}

RECURSIVE ScanItems(_, _, _)
\* one while loop of parseHtmlToElements over the markup
ScanItems(elements, items, scan) ==
  IF items = <<>> THEN elements
  ELSE Bind(elements \o
              [i \in 1..Cardinality(Pushed(Head(items), scan, Len(elements))) |->
                 CHOOSE e \in Pushed(Head(items), scan, Len(elements)) : TRUE],
            LAMBDA pushed : ScanItems(pushed, Tail(items), scan))

\* parseHtmlToElements: headings, then paragraphs, then images, then buttons
parseHtmlToElements(items) ==
  Bind(ScanItems(<<>>, items, "heading"), LAMBDA e1 :
  Bind(ScanItems(e1, items, "paragraph"), LAMBDA e2 :
  Bind(ScanItems(e2, items, "image"), LAMBDA e3 :
    ScanItems(e3, items, "button"))))

\* the rules with hero and banner tested before header and footer
determineSectionTypeHeroFirst(html, classes) ==
  IF "hero" \in classes \/ "banner" \in classes THEN "hero"
  ELSE IF "header" \in classes \/ "<header" \in html THEN "header"
  ELSE IF "footer" \in classes \/ "<footer" \in html THEN "footer"
  ELSE IF "offer" \in classes \/ "card" \in classes THEN "offer-list"
  ELSE IF "cta" \in classes \/ "action" \in classes THEN "cta"
  ELSE IF "feature" \in classes THEN "features"
  ELSE IF "testimonial" \in classes \/ "review" \in classes THEN "testimonials"
  ELSE "content"

\* classes and html are given as the sets of the keywords that lowerClasses
\* and lowerHtml contain
determineSectionType(html, classes) ==
  IF "header" \in classes \/ "<header" \in html THEN "header"
  ELSE IF "footer" \in classes \/ "<footer" \in html THEN "footer"
  ELSE IF "hero" \in classes \/ "banner" \in classes THEN "hero"
  ELSE IF "offer" \in classes \/ "card" \in classes THEN "offer-list"
  ELSE IF "cta" \in classes \/ "action" \in classes THEN "cta"
  ELSE IF "feature" \in classes THEN "features"
  ELSE IF "testimonial" \in classes \/ "review" \in classes THEN "testimonials"
  ELSE "content"

Digit(n) == <<"0", "1", "2", "3", "4", "5", "6", "7", "8", "9">>[n + 1]

\* `section-${order}`
DefaultSectionId(order) == <<"s", "e", "c", "t", "i", "o", "n", "-">> \o <<Digit(order)>>

MIN_BLOCK_LENGTH == 50

\* sections.push({...}) for the match b
SectionOf(b, order) ==
  LET classes == CapturedClasses(b.classAttr)
      id == CapturedText(b.id)
      type == determineSectionType(b.html, classes)
      offerish == type = "offer-list" \/ "offer" \in classes \/ "card" \in classes
  IN [kind |-> "section",
      id |-> IF id # <<>> THEN id ELSE DefaultSectionId(order),
      type |-> type,
      order |-> order,
      layout |-> IF offerish
                   THEN Layout("flex", "column", "1.5rem", "800px", "1rem")
                   ELSE Layout("block", "", "", "", ""),
      children |-> parseHtmlToElements(b.items),
      styles |-> [padding |-> Num(2, 1, "rem 1rem")]]

\* the two continue statements: too little markup, or no element in it
Skipped(b) ==
  b.length < MIN_BLOCK_LENGTH \/ parseHtmlToElements(b.items) = <<>>

RECURSIVE ScanBlocksCounting(_, _)
\* a scan that counts every match, retained or not
ScanBlocksCounting(blocks, order) ==
  IF blocks = <<>> THEN <<>>
  ELSE IF Skipped(Head(blocks))
    THEN ScanBlocksCounting(Tail(blocks), order + 1)
    ELSE <<SectionOf(Head(blocks), order)>>
           \o ScanBlocksCounting(Tail(blocks), order + 1)

RECURSIVE ScanBlocks(_, _)
\* the while loop of buildSections over the remaining matches
ScanBlocks(blocks, order) ==
  IF blocks = <<>> THEN <<>>
  ELSE IF Skipped(Head(blocks))
    THEN ScanBlocks(Tail(blocks), order)
    ELSE <<SectionOf(Head(blocks), order)>> \o ScanBlocks(Tail(blocks), order + 1)

\* a scan that returns what it found, be it nothing
buildSectionsFoundOnly(pageContent) == ScanBlocks(pageContent.blocks, 0)

buildSections(pageContent) ==
  LET found == ScanBlocks(pageContent.blocks, 0)
  IN IF found = <<>>
       THEN <<[kind |-> "section",
               id |-> <<"m", "a", "i", "n", "-", "c", "o", "n", "t", "e", "n", "t">>,
               type |-> "content",
               order |-> 0,
               layout |-> Layout("block", "", "", "1200px", "2rem 1rem"),
               children |-> parseHtmlToElements(pageContent.bodyItems),
               styles |-> [padding |-> AbsentValue]]>>
       ELSE found

Len2(v, unit) == [kind |-> "len", v |-> v, unit |-> unit]

Level(fontSize, fontWeight, lineHeight, marginBottom) ==
  [fontSize |-> fontSize, fontWeight |-> fontWeight, lineHeight |-> lineHeight,
   marginBottom |-> marginBottom]

\* buildTypographyPlan: the default typography plan
DefaultTypography ==
  [kind |-> "typography",
   baseSize |-> "16px",
   h1 |-> Level(Len2(250, "rem"), "700", Num(12, 10, ""), "1rem"),
   h2 |-> Level(Len2(200, "rem"), "600", Num(13, 10, ""), "0.75rem"),
   h3 |-> Level(Len2(150, "rem"), "600", Num(14, 10, ""), "0.5rem"),
   h4 |-> Level(Len2(125, "rem"), "500", Num(14, 10, ""), "0.5rem"),
   body |-> Level(Len2(100, "rem"), "400", Num(16, 10, ""), "1rem"),
   small |-> Level(Len2(88, "rem"), "400", Num(15, 10, ""), "0.5rem")]

\* styles.x || plan.level.x, for a length or a number, and for a font weight
OrElse(value, default) == IF value.kind = "absent" THEN default ELSE value

OrElseText(value, default) == IF value = "" THEN default ELSE value

\* one pass of the for loop of buildTypographyPlan: entry is the computed
\* style of the element with the tag entry.tag (the selector is the tag
\* followed by the id, the classes and the index of the element)
ApplyEntry(plan, entry) ==
  IF entry.tag = "h1"
    THEN [plan EXCEPT !.h1.fontSize = OrElse(entry.fontSize, @),
                      !.h1.fontWeight = OrElseText(entry.fontWeight, @),
                      !.h1.lineHeight = OrElse(entry.lineHeight, @)]
  ELSE IF entry.tag = "h2"
    THEN [plan EXCEPT !.h2.fontSize = OrElse(entry.fontSize, @),
                      !.h2.fontWeight = OrElseText(entry.fontWeight, @)]
  ELSE IF entry.tag = "h3"
    THEN [plan EXCEPT !.h3.fontSize = OrElse(entry.fontSize, @),
                      !.h3.fontWeight = OrElseText(entry.fontWeight, @)]
  ELSE IF entry.tag = "p"
    THEN [plan EXCEPT !.body.fontSize = OrElse(entry.fontSize, @),
                      !.body.lineHeight = OrElse(entry.lineHeight, @)]
  ELSE plan

RECURSIVE ApplyEntries(_, _)
ApplyEntries(plan, entries) ==
  IF entries = <<>> THEN plan
  ELSE ApplyEntries(ApplyEntry(plan, Head(entries)), Tail(entries))

\* buildTypographyPlan(computedStyles), the entries in the order of
\* Object.entries
buildTypographyPlan(computedStyles) == ApplyEntries(DefaultTypography, computedStyles)

\* analyze(request): the objects of the new plan, typography first, then the
\* sections, the plan object last (its address is the length of the result)
analyze(pageContent) ==
  LET sections == buildSections(pageContent)
      n == Len(sections)
  IN <<buildTypographyPlan(pageContent.computedStyles)>> \o sections \o
     <<[kind |-> "plan",
        sections |-> [i \in 1..n |-> i + 1],
        typography |-> 1,
        globalStyles |-> [bodyBackground |-> "#ffffff", bodyColor |-> "#333333",
                          fontFamily |-> "system", lineHeight |-> "1.6",
                          maxWidth |-> "1200px"],
        colorScheme |-> [primary |-> "#007bff", secondary |-> "#6c757d",
                         accent |-> "#ffc107", background |-> "#ffffff",
                         surface |-> "#f8f9fa", text |-> "#212529",
                         textMuted |-> "#6c757d", border |-> "#dee2e6"]]>>

\* Pages given to the controller
Block(classAttr, html, id, length, items) ==
  [classAttr |-> classAttr, html |-> html, id |-> id, length |-> length,
   items |-> items]

Item(kind, tag, classAttr, content, src, alt, href) ==
  [kind |-> kind, tag |-> tag, classAttr |-> classAttr, content |-> content,
   src |-> src, alt |-> alt, href |-> href]

Hi == <<"H", "i">>

Sentence == <<"T", "w", "o", " ", "f", "o", "r", " ", "o", "n", "e">>

\* <div><header><h1>Hi</h1>...</header></div>
HeaderBlock ==
  Block({}, {"<header"}, <<>>, 60,
        <<Item("heading", "h1", {}, Hi, <<>>, <<>>, <<>>)>>)

\* a div with too little in it
ShortBlock ==
  Block({}, {}, <<>>, 10, <<Item("heading", "h2", {}, Hi, <<>>, <<>>, <<>>)>>)

\* <div class="card">: markup that is long enough, with nothing in it but a
\* paragraph too short to keep
BareBlock ==
  Block({"card"}, {}, <<>>, 70, <<Item("p", "p", {}, Hi, <<>>, <<>>, <<>>)>>)

\* <div class="offer" id="d">: a link, an image, a paragraph and a heading
OfferBlock ==
  Block({"offer"}, {}, <<"d">>, 80,
        <<Item("a", "a", {"btn"}, Hi, <<>>, <<>>, <<"/">>),
          Item("img", "img", {}, <<>>, <<"/", "x">>, Hi, <<>>),
          Item("p", "p", {}, Sentence, <<>>, <<>>, <<>>),
          Item("heading", "h1", {}, Hi, <<>>, <<>>, <<>>)>>)

\* markup of the body that is in no block
LooseItems ==
  <<Item("p", "p", {}, Hi, <<>>, <<>>, <<>>),
    Item("heading", "h1", {}, Hi, <<>>, <<>>, <<>>)>>

RECURSIVE ItemsOf(_)
\* the tags of the blocks, as they follow each other in the body
ItemsOf(blocks) ==
  IF blocks = <<>> THEN <<>>
  ELSE Head(blocks).items \o ItemsOf(Tail(blocks))

\* what the browser computes for an element that no style sheet mentions;
\* a line height of normal is left out of the styles
ComputedStyle(item) ==
  [tag |-> item.tag,
   fontSize |-> CASE item.tag = "h1" -> Len2(3200, "px")
                  [] item.tag = "h2" -> Len2(2400, "px")
                  [] OTHER -> Len2(1600, "px"),
   fontWeight |-> IF item.kind = "heading" THEN "700" ELSE "400",
   lineHeight |-> AbsentValue]

\* a page: the blocks of its body and then the markup outside them; every
\* item is a key element and has an entry in computedStyles
Page(title, metaDescription, blocks, loose) ==
  [title |-> title, metaDescription |-> metaDescription, blocks |-> blocks,
   bodyItems |-> ItemsOf(blocks) \o loose,
   computedStyles |-> [i \in 1..Len(ItemsOf(blocks) \o loose) |->
                         ComputedStyle((ItemsOf(blocks) \o loose)[i])]]

OffersPage == Page(Hi, <<>>, <<HeaderBlock, ShortBlock, OfferBlock>>, <<>>)

\* no block at all: a paragraph too short to keep and a heading
PlainPage == Page(<<>>, Hi, <<>>, LooseItems)

-----------------------------------------------------------------------------
(* The controller: processJob (kind "job") and runVerification (kind       *)
(* "verify"). A frame holds the job object and the locals of one           *)
(* invocation; the operators below are the synchronous stretches of code   *)
(* between two awaits.                                                     *)

Jobs  == {"A", "B"}
Procs == Jobs \cup {"V"}

KindOf(p) == IF p \in Jobs THEN "job" ELSE "verify"

\* '' (gen 0), or the string returned by the generate call of iteration gen
NoHtml == [gen |-> 0, doc |-> <<>>]

NoResult ==
  [set |-> FALSE, success |-> FALSE, htmlContent |-> NoHtml,
   finalDesktopMismatch |-> 0, finalMobileMismatch |-> 0, iterations |-> 0,
   bestIteration |-> 0, passesThreshold |-> FALSE]

\* POST handler up to processJob's first statement / runVerification's locals
NewFrame(kind, page, renderOutcome) ==
  [kind |-> kind,
   status |-> IF kind = "job" THEN "pending" ELSE "",
   error |-> "",
   iterations |-> <<>>,
   result |-> NoResult,
   iteration |-> 0,
   bestHtml |-> NoHtml,
   bestMismatch |-> [desktop |-> 100 * ROUND_SCALE, mobile |-> 100 * ROUND_SCALE],
   bestIteration |-> 0,
   passesThreshold |-> FALSE,
   layoutPlan |-> 0,
   html |-> NoHtml,
   heap |-> <<>>,
   ctx |-> 0,
   ended |-> FALSE,
   \* inputs
   page |-> page,
   renderOutcome |-> renderOutcome,
   oracle |-> <<>>,
   \* history
   statusLog |-> IF kind = "job" THEN <<"pending">> ELSE <<>>,
   steps |-> <<>>,      \* the steps taken, in order
   results |-> <<>>,    \* what each call of test returned
   passedAt |-> 0,      \* the position in steps of the first passing score
   plans |-> <<>>]      \* per generate call: the plan it read, and its value

SetStatus(f, s) ==
  IF f.kind = "job"
    THEN [f EXCEPT !.status = s, !.statusLog = Append(@, s)]
    ELSE f

Step(f, name) == [f EXCEPT !.steps = Append(@, name)]

\* job.status = 'rendering'; await browserRenderMCP.render(...)
BeginRender(f) == Step(SetStatus(f, "rendering"), "render")

\* Step 2 and the locals of step 3
Analyze(f) ==
  LET cells == analyze(f.page)
      f1 == Step(SetStatus(f, "analyzing"), "analyze")
  IN [f1 EXCEPT !.heap = cells, !.layoutPlan = Len(cells),
                !.bestHtml = NoHtml,
                !.bestMismatch = [desktop |-> 100 * ROUND_SCALE,
                                  mobile |-> 100 * ROUND_SCALE],
                !.iteration = 0]

\* a loop condition whose bound is inclusive: one cycle too many
LoopContinuesInclusive(iteration) == iteration <= MAX_ITERATIONS

\* while (iteration < MAX_ITERATIONS)
LoopContinues(iteration) == iteration < MAX_ITERATIONS

\* no test of the iteration index before refining
RefineAllowedUnchecked(iteration) == TRUE

\* a refinement after every failing score, the last one included
RefineAllowedAlways(iteration) == iteration <= MAX_ITERATIONS

\* if (iteration < MAX_ITERATIONS), before refining
RefineAllowed(iteration) == iteration < MAX_ITERATIONS

\* iteration++, generateAndSave, and the call of diffTestMCP.test; o is what the
\* renderer and the comparator will answer for this document
StartIteration(f, o) ==
  LET f1 == Step(SetStatus([f EXCEPT !.iteration = @ + 1], "generating"), "generate")
  IN Bind(generate(f.heap, f.layoutPlan, f.page), LAMBDA g :
       SetStatus([f1 EXCEPT !.heap = g.heap,
                            !.html = [gen |-> f1.iteration, doc |-> g.html],
                            !.plans = Append(@, [addr |-> f1.layoutPlan,
                                                 value |-> PlanValue(g.heap, f1.layoutPlan)]),
                            !.oracle = Append(@, o)],
                 "testing"))

\* Record iteration result and track best result
Track(f, r) ==
  LET iterationResult ==
        [iteration |-> f.iteration, desktopMismatch |-> r.desktopMismatch,
         mobileMismatch |-> r.mobileMismatch, adjusted |-> FALSE,
         adjustments |-> <<>>]
      totalMismatch == r.desktopMismatch + r.mobileMismatch
      bestTotalMismatch == f.bestMismatch.desktop + f.bestMismatch.mobile
      f0 == Step([f EXCEPT !.iterations = Append(@, iterationResult),
                           !.results = Append(@, r)], "score")
      f1 == IF r.passesThreshold /\ f.passedAt = 0
              THEN [f0 EXCEPT !.passedAt = Len(f0.steps)] ELSE f0
  IN IF totalMismatch < bestTotalMismatch
       THEN [f1 EXCEPT !.bestHtml = f.html,
                       !.bestIteration = IF f.kind = "verify" THEN f.iteration ELSE @,
                       !.bestMismatch = [desktop |-> r.desktopMismatch,
                                         mobile |-> r.mobileMismatch]]
       ELSE f1

\* if (diffResult.passesThreshold) { ...; break }
PassBreak(f, r) ==
  IF f.kind = "job"
    THEN [f EXCEPT !.bestHtml = f.html,
                   !.bestMismatch = [desktop |-> r.desktopMismatch,
                                     mobile |-> r.mobileMismatch]]
    ELSE [f EXCEPT !.passesThreshold = TRUE]

\* Refine if not last iteration
Adjust(f, r) ==
  LET adjustments == suggestAdjustments(r.desktopMismatch, r.mobileMismatch, f.iteration)
      f1 == Step(SetStatus(f, "refining"), "adjust")
      last == Len(f.iterations)
  IN Bind(refine(f.heap, f.layoutPlan, adjustments), LAMBDA refined :
       [f1 EXCEPT !.iterations[last].adjusted = TRUE,
                  !.iterations[last].adjustments = adjustments,
                  !.heap = refined.heap,
                  !.layoutPlan = refined.plan])

\* Save final HTML, mark the job as completed / return the verification result
Finish(f) ==
  LET f1 == Step(SetStatus(f, "completed"), "complete")
  IN [f1 EXCEPT !.ended = TRUE,
                !.result = [set |-> TRUE, success |-> TRUE,
                            htmlContent |-> f.bestHtml,
                            finalDesktopMismatch |-> f.bestMismatch.desktop,
                            finalMobileMismatch |-> f.bestMismatch.mobile,
                            iterations |-> IF f.kind = "job" THEN f.iteration
                                           ELSE Len(f.iterations),
                            bestIteration |-> f.bestIteration,
                            passesThreshold |-> f.passesThreshold]]

\* a catch block that drops the message of what it caught
FailUnknown(f, message) ==
  LET f1 == Step(SetStatus(f, "failed"), "fail")
  IN [f1 EXCEPT !.ended = TRUE, !.error = "Unknown error"]

\* the catch block
Fail(f, message) ==
  LET f1 == Step(SetStatus(f, "failed"), "fail")
  IN IF f.kind = "job"
       THEN [f1 EXCEPT !.ended = TRUE, !.error = message]
       ELSE [f1 EXCEPT !.ended = TRUE, !.error = message,
                       !.result = [set |-> TRUE, success |-> FALSE,
                                   htmlContent |-> NoHtml,
                                   finalDesktopMismatch |-> 100 * ROUND_SCALE,
                                   finalMobileMismatch |-> 100 * ROUND_SCALE,
                                   iterations |-> Len(f.iterations),
                                   bestIteration |-> 0,
                                   passesThreshold |-> FALSE]]

-----------------------------------------------------------------------------
(* What the outside world answers *)

\* the pixel counts (desktop, mobile) pixelmatch may report
PixelsAt(percent) == (percent * TotalPixels) \div 100

FullSamples ==
  {<<0, 0>>,
   <<PixelsAt(DESKTOP_THRESHOLD), PixelsAt(MOBILE_THRESHOLD)>>,
   <<PixelsAt(DESKTOP_THRESHOLD) + 1, 0>>,
   <<PixelsAt(DESKTOP_THRESHOLD + 1), 0>>,
   <<PixelsAt(50), PixelsAt(50)>>}

FewSamples == {<<0, 0>>, <<PixelsAt(50), PixelsAt(50)>>}

Outcome(ok, md, mm) ==
  [ok |-> ok, md |-> md, td |-> TotalPixels, mm |-> mm, tm |-> TotalPixels]

\* what rendering and comparing one generated document gives when no other
\* job interferes: a pair of pixel counts, or an exception
Outcomes ==
  {Outcome(TRUE, s[1], s[2]) : s \in env.samples}
  \cup (IF env.testMayThrow THEN {Outcome(FALSE, 0, 0)} ELSE {})

\* how render(url) ends when no other job interferes
RenderOutcomes == {"ok", "robots", "navigation"}

-----------------------------------------------------------------------------
(* Actions: one per resumption of an invocation *)

\* the finally block calls close(): browser.close() is issued when there is a
\* browser; otherwise the invocation is over
CallClose(p) ==
  IF browser # 0
    THEN /\ browsers' = [browsers EXCEPT ![browser] = "closed"]
         /\ pc' = [pc EXCEPT ![p] = "closing"]
    ELSE /\ browsers' = browsers
         /\ pc' = [pc EXCEPT ![p] = "done"]

\* init() as called by renderHtml: launch when there is no browser
CallRenderHtml(p) ==
  /\ pc' = [pc EXCEPT ![p] = IF browser = 0 THEN "h_launch" ELSE "h_context"]
  /\ browsers' = browsers

\* the invocation continues with frame f up to its next await
Continue(p, f) ==
  /\ fr' = [fr EXCEPT ![p] = f]
  /\ IF f.ended THEN CallClose(p) ELSE CallRenderHtml(p)
  /\ UNCHANGED <<pool, env, browser, drv>>

Usable(b) == b # 0 /\ browsers[b] = "open"

\* from the return of diffTestMCP.test to the next await: the rest of the loop
\* body, then either the next iteration up to its test call or the end of
\* the try block
AfterTest(p, r) ==
  \E f1 \in {Track(fr[p], r)} :
    IF r.passesThreshold
      THEN \E f \in {Finish(PassBreak(f1, r))} : Continue(p, f)
      ELSE \E f2 \in {IF RefineAllowed(f1.iteration) THEN Adjust(f1, r) ELSE f1} :
             IF LoopContinues(f2.iteration)
               THEN \E o \in Outcomes :
                      \E f \in {StartIteration(f2, o)} : Continue(p, f)
               ELSE \E f \in {Finish(f2)} : Continue(p, f)

\* POST /api/plunder (or the harness is started): the frame is created and runs
\* to the init() call of render
Start(p) ==
  /\ p \in pool
  /\ \E page \in env.pages, ro \in RenderOutcomes :
       fr' = [fr EXCEPT ![p] = BeginRender(NewFrame(KindOf(p), page, ro))]
  /\ pc' = [pc EXCEPT ![p] = IF browser = 0 THEN "r_launch" ELSE "robots"]
  /\ pool' = pool \ {p}
  /\ UNCHANGED <<env, browser, browsers, drv>>

\* chromium.launch() resolves: this.browser = the new browser
LaunchDone(p) ==
  /\ pc[p] \in {"r_launch", "h_launch"}
  /\ browsers' = Append(browsers, "open")
  /\ browser' = Len(browsers) + 1
  /\ pc' = [pc EXCEPT ![p] = IF pc[p] = "r_launch" THEN "robots" ELSE "h_context"]
  /\ UNCHANGED <<pool, env, fr, drv>>

\* checkRobotsTxt resolves; render returns a failure or calls newContext
RobotsDone(p) ==
  /\ pc[p] = "robots"
  /\ IF fr[p].renderOutcome = "robots"
       THEN \E f \in {Fail(fr[p], "URL is disallowed by robots.txt")} : Continue(p, f)
     ELSE IF browser = 0
       THEN \E f \in {Fail(fr[p], "Cannot read properties of null")} : Continue(p, f)
     ELSE IF browsers[browser] # "open"
       THEN \E f \in {Fail(fr[p], "Target closed")} : Continue(p, f)
     ELSE /\ fr' = [fr EXCEPT ![p].ctx = browser]
          /\ pc' = [pc EXCEPT ![p] = "r_page"]
          /\ UNCHANGED <<pool, env, browser, browsers, drv>>

\* the page work of render ends; on success analyze and the first iteration run
RenderDone(p) ==
  /\ pc[p] = "r_page"
  /\ IF ~Usable(fr[p].ctx)
       THEN \E f \in {Fail(fr[p], "Target closed")} : Continue(p, f)
     ELSE IF fr[p].renderOutcome = "navigation"
       THEN \E f \in {Fail(fr[p], "Navigation failed")} : Continue(p, f)
     ELSE \E f0 \in {Analyze(fr[p])}, o \in Outcomes :
            \E f \in {StartIteration(f0, o)} : Continue(p, f)

\* renderHtml after init(): newContext on this.browser; a throw is caught by
\* test, which returns 100/100
HtmlContext(p) ==
  /\ pc[p] = "h_context"
  /\ IF Usable(browser)
       THEN /\ fr' = [fr EXCEPT ![p].ctx = browser]
            /\ pc' = [pc EXCEPT ![p] = "h_page"]
            /\ UNCHANGED <<pool, env, browser, browsers, drv>>
       ELSE AfterTest(p, TestFailure)

\* the page work of renderHtml and the two comparisons end
TestDone(p) ==
  /\ pc[p] = "h_page"
  /\ \E mine \in {fr[p].oracle[Len(fr[p].oracle)]} :
       \E r \in {IF Usable(fr[p].ctx) THEN test(mine) ELSE TestFailure} :
         AfterTest(p, r)

\* browser.close() resolves: this.browser = null
CloseDone(p) ==
  /\ pc[p] = "closing"
  /\ browser' = 0
  /\ pc' = [pc EXCEPT ![p] = "done"]
  /\ UNCHANGED <<pool, env, browsers, fr, drv>>

Next ==
  \E p \in Procs :
    \/ Start(p)
    \/ LaunchDone(p)
    \/ RobotsDone(p)
    \/ RenderDone(p)
    \/ HtmlContext(p)
    \/ TestDone(p)
    \/ CloseDone(p)

IdleFrames == [p \in Procs |-> NewFrame(KindOf(p), PlainPage, "ok")]

InitWith(ps, e) ==
  /\ pool = ps
  /\ env = e
  /\ browser = 0
  /\ browsers = <<>>
  /\ pc = [p \in Procs |-> "idle"]
  /\ fr = IdleFrames
  /\ drv = [mode |-> "off"]

\* one invocation: a single job on the server, or the verification harness
Init ==
  \E ps \in {{"A"}, {"V"}} :
    InitWith(ps, [samples |-> FullSamples, pages |-> {OffersPage, PlainPage},
                  testMayThrow |-> TRUE])

Spec == Init /\ [][Next]_vars

\* browser.close() rejects: this.browser keeps its value, the rejection leaves
\* the finally block and with it the invocation; for a job the catch of the
\* POST handler runs, for the harness the returned value is lost
CloseFailed(p) ==
  /\ pc[p] = "closing"
  /\ fr' = [fr EXCEPT ![p] =
              IF fr[p].kind = "job"
                THEN [SetStatus(fr[p], "failed") EXCEPT !.error = "close failed"]
                ELSE [fr[p] EXCEPT !.result = NoResult, !.error = "close failed"]]
  /\ pc' = [pc EXCEPT ![p] = "done"]
  /\ UNCHANGED <<pool, env, browser, browsers, drv>>

NextClose == Next \/ \E p \in Procs : CloseFailed(p)

\* one invocation, with a browser whose close() may reject
SpecClose == Init /\ [][NextClose]_vars

\* two jobs posted to the same server
InitConc ==
  InitWith(Jobs, [samples |-> FewSamples, pages |-> {OffersPage},
                  testMayThrow |-> FALSE])

SpecConc == InitConc /\ [][Next]_vars

-----------------------------------------------------------------------------
(* A caller of the library: refine and generate applied to a Layout Model  *)
(* it holds, in any order. drv.last describes the last call: the plan it   *)
(* was given and the value that plan had before the call. drv.snaps holds, *)
(* per generate call, the plan it read, its value before the call and on  *)
(* return, and the document returned.                                      *)
(* drv.base is the value of the caller's plan when it was last handed to   *)
(* generate (or when it was built): the start of a run of refine calls.    *)
(* drv.again is set by a generate call that directly follows another one;  *)
(* the caller makes no call after it.                                      *)

MaxRefines == 2

\* the heap of a plan built by hand: typography, sections, plan object
MakePlan(typography, sections) ==
  <<typography>> \o sections \o
  <<[analyze(PlainPage)[3] EXCEPT !.sections = [i \in 1..Len(sections) |-> i + 1]]>>

Section(id, type, order, layout, padding, children) ==
  [kind |-> "section", id |-> id, type |-> type, order |-> order,
   layout |-> layout, children |-> children, styles |-> [padding |-> padding]]

\* a list with two items: elements nested in an element
NestedList ==
  [Elem("ul-0", "list", "ul", <<>>, <<>>, <<>>, <<>>) EXCEPT
     !.children = <<Elem("li-1", "list-item", "li", Hi, <<>>, <<>>, <<>>),
                    Elem("li-2", "list-item", "li", <<"&">>, <<>>, <<>>, <<>>)>>]

\* three sections whose array order is not their order field; a padding
\* parseFloat cannot read, font sizes in px and in %, a line height in words
UnsortedPlan ==
  MakePlan(
    [DefaultTypography EXCEPT
       !.h1.fontSize = Len2(3200, "px"),
       !.h2.fontSize = [kind |-> "other", v |-> 0, unit |-> "120%"],
       !.body.lineHeight = TextValue("normal")],
    <<Section(<<"c">>, "content", 2, Layout("block", "", "", "", ""),
              TextValue("auto"), <<NestedList>>),
      Section(<<"a">>, "offer-card", 0,
              Layout("flex", "column", "1.5rem", "800px", "1rem"),
              Num(3, 2, "rem"),
              <<Elem("img-0", "image", "img", <<>>, <<"/", "x">>, Hi, <<>>)>>),
      Section(<<"b">>, "offer-list", 1, Layout("block", "", "", "", ""),
              AbsentValue,
              <<Elem("a-0", "link", "a", Hi, <<>>, <<>>, <<"/">>)>>)>>)

SamplePlans == {analyze(OffersPage), analyze(PlainPage), UnsortedPlan}

\* the lists suggestAdjustments can return, and lists it never returns
AdjustmentLists ==
  {suggestAdjustments(d, m, i) :
     d \in {0, DESKTOP_THRESHOLD * ROUND_SCALE + 1},
     m \in {0, MOBILE_THRESHOLD * ROUND_SCALE + 1},
     i \in 1..MAX_ITERATIONS}
  \cup {<<"alignment:left">>, <<"spacing font", "font:larger">>, <<"unknown">>}

NoCall == [op |-> "none", plan |-> 0, value |-> <<>>, adjustments |-> <<>>]

ctl == <<pool, env, browser, browsers, pc, fr>>

\* const refined = visionLayoutMCP.refine(layoutPlan, adjustments)
RefineCall ==
  /\ drv.mode = "plan"
  /\ ~drv.again
  /\ drv.refines < MaxRefines
  /\ \E adjustments \in AdjustmentLists :
       \E refined \in {refine(drv.heap, drv.plan, adjustments)} :
         drv' = [drv EXCEPT !.heap = refined.heap,
                            !.plan = refined.plan,
                            !.refines = @ + 1,
                            !.last = [op |-> "refine", plan |-> drv.plan,
                                      value |-> PlanValue(drv.heap, drv.plan),
                                      adjustments |-> adjustments]]
  /\ UNCHANGED ctl

\* const html = codegenMCP.generate({ layoutPlan, pageContent })
GenerateCall ==
  /\ drv.mode = "plan"
  /\ ~drv.again
  /\ \E g \in {generate(drv.heap, drv.plan, PlainPage)} :
       drv' = [drv EXCEPT !.heap = g.heap,
                          !.html = g.html,
                          !.base = PlanValue(g.heap, drv.plan),
                          !.again = drv.last.op = "generate",
                          !.snaps = Append(@, [plan |-> drv.plan,
                                               input |-> PlanValue(drv.heap, drv.plan),
                                               html |-> g.html,
                                               value |-> PlanValue(g.heap, drv.plan)]),
                          !.last = [op |-> "generate", plan |-> drv.plan,
                                    value |-> PlanValue(drv.heap, drv.plan),
                                    adjustments |-> <<>>]]
  /\ UNCHANGED ctl

NextPlan == RefineCall \/ GenerateCall

InitPlan ==
  /\ pool = {}
  /\ env = [samples |-> {}, pages |-> {}, testMayThrow |-> FALSE]
  /\ browser = 0
  /\ browsers = <<>>
  /\ pc = [p \in Procs |-> "idle"]
  /\ fr = IdleFrames
  /\ \E h \in SamplePlans :
       drv = [mode |-> "plan", heap |-> h, plan |-> Len(h),
              base |-> PlanValue(h, Len(h)),
              refines |-> 0, html |-> <<>>, snaps |-> <<>>, last |-> NoCall,
              again |-> FALSE]

SpecPlan == InitPlan /\ [][NextPlan]_vars

-----------------------------------------------------------------------------
(* A caller of generate with text taken from a scraped page: the same      *)
(* string in every position that holds text of the page.                   *)

MaxTextLen == 2

Chars == {"a", "&", "<", ">", "\"", "'"}

Texts == UNION {[1..n -> Chars] : n \in 0..MaxTextLen}

SectionTypes ==
  {"header", "hero", "content", "offer-list", "offer-card", "features",
   "testimonials", "cta", "footer", "generic"}

ElementTypes == {"heading", "paragraph", "image", "link", "button", "card", "text"}

\* one section of the given type holding one element of the given type
TextPlan(text, elementType, sectionType) ==
  MakePlan(DefaultTypography,
    <<Section(text, sectionType, 0, Layout("block", "", "", "", ""),
              Num(2, 1, "rem 1rem"),
              <<[Elem("e-0", elementType, "h1", text, text, text, text) EXCEPT
                   !.dataAttributes = <<[k |-> "id", v |-> text]>>]>>)>>)

TextPage(text) ==
  [title |-> text, metaDescription |-> text, blocks |-> <<>>, bodyItems |-> <<>>,
   computedStyles |-> <<>>]

\* const html = codegenMCP.generate({ layoutPlan, pageContent })
GenerateText ==
  /\ drv.mode = "text"
  /\ drv.html = <<>>
  /\ \E h \in {TextPlan(drv.text, drv.elementType, drv.sectionType)} :
       \E g \in {generate(h, Len(h), TextPage(drv.text))} :
         drv' = [drv EXCEPT !.html = <<g.html>>]
  /\ UNCHANGED ctl

NextHtml == GenerateText

InitHtml ==
  /\ pool = {}
  /\ env = [samples |-> {}, pages |-> {}, testMayThrow |-> FALSE]
  /\ browser = 0
  /\ browsers = <<>>
  /\ pc = [p \in Procs |-> "idle"]
  /\ fr = IdleFrames
  /\ \E text \in Texts, elementType \in ElementTypes,
        sectionType \in SectionTypes :
       drv = [mode |-> "text", text |-> text, elementType |-> elementType,
              sectionType |-> sectionType, html |-> <<>>]

SpecHtml == InitHtml /\ [][NextHtml]_vars

-----------------------------------------------------------------------------
(* A caller of analyze, and then of refine on what analyze returned, for   *)
(* pages of up to MaxBlocks blocks                                         *)

MaxBlocks == 3

BlockKinds == {HeaderBlock, ShortBlock, BareBlock, OfferBlock}

Pages ==
  {Page(Hi, <<>>, blocks, loose) :
     blocks \in UNION {[1..n -> BlockKinds] : n \in 0..MaxBlocks},
     loose \in {<<>>, LooseItems}}

\* the adjustments the controllers ask for after a first failing score
FirstAdjustments ==
  {suggestAdjustments(DESKTOP_THRESHOLD * ROUND_SCALE + 1, 0, 1),
   suggestAdjustments(0, MOBILE_THRESHOLD * ROUND_SCALE + 1, 1),
   suggestAdjustments(DESKTOP_THRESHOLD * ROUND_SCALE + 1,
                      MOBILE_THRESHOLD * ROUND_SCALE + 1, 1)}

\* let layoutPlan = visionLayoutMCP.analyze({ ..., pageContent })
AnalyzeCall ==
  /\ drv.mode = "page"
  /\ ~drv.analyzed
  /\ \E cells \in {analyze(drv.page)} :
       drv' = [drv EXCEPT !.analyzed = TRUE, !.heap = cells, !.plan = Len(cells)]
  /\ UNCHANGED ctl

\* layoutPlan = visionLayoutMCP.refine(layoutPlan, adjustments)
RefineAnalyzed ==
  /\ drv.mode = "page"
  /\ drv.analyzed
  /\ drv.refines < MaxRefines
  /\ \E adjustments \in FirstAdjustments :
       \E refined \in {refine(drv.heap, drv.plan, adjustments)} :
         drv' = [drv EXCEPT !.heap = refined.heap, !.plan = refined.plan,
                            !.refines = @ + 1]
  /\ UNCHANGED ctl

NextAnalyze == AnalyzeCall \/ RefineAnalyzed

InitAnalyze ==
  /\ pool = {}
  /\ env = [samples |-> {}, pages |-> {}, testMayThrow |-> FALSE]
  /\ browser = 0
  /\ browsers = <<>>
  /\ pc = [p \in Procs |-> "idle"]
  /\ fr = IdleFrames
  /\ \E page \in Pages :
       drv = [mode |-> "page", page |-> page, analyzed |-> FALSE,
              heap |-> <<>>, plan |-> 0, refines |-> 0]

SpecAnalyze == InitAnalyze /\ [][NextAnalyze]_vars

-----------------------------------------------------------------------------
(* DiffTestMCP.resizePNG and compareScreenshots *)
(* A decoded image is its width, its height and its pixels in row order.   *)
(* The four bytes of a pixel are kept as one value, since they are always  *)
(* copied together. A read past the end of a buffer gives Undefined.       *)

MaxSide == 3
MaxFactor == 2

Undefined == -1

\* a source coordinate rounded to the nearest integer
SrcCoordRounded(x, sourceSide, targetSide) ==
  (2 * x * sourceSide + targetSide) \div (2 * targetSide)

\* Math.floor(x * source.width / targetWidth), and the same for y
SrcCoord(x, sourceSide, targetSide) == (x * sourceSide) \div targetSide

\* the pixel of source that target pixel k (counted from 0) is copied from
SrcIdx(source, targetWidth, targetHeight, k) ==
  LET x == k % targetWidth
      y == k \div targetWidth
  IN SrcCoord(y, source.height, targetHeight) * source.width
       + SrcCoord(x, source.width, targetWidth)

ReadPixel(data, idx) ==
  IF idx + 1 \in DOMAIN data THEN data[idx + 1] ELSE Undefined

\* a resize that copies each pixel from the same coordinates of the source
resizePNGUnscaled(source, targetWidth, targetHeight) ==
  [width |-> targetWidth, height |-> targetHeight,
   data |-> [k \in 1..(targetWidth * targetHeight) |->
               LET x == (k - 1) % targetWidth
                   y == (k - 1) \div targetWidth
               IN IF x < source.width /\ y < source.height
                    THEN ReadPixel(source.data, y * source.width + x)
                    ELSE Undefined]]

resizePNG(source, targetWidth, targetHeight) ==
  [width |-> targetWidth, height |-> targetHeight,
   data |-> [k \in 1..(targetWidth * targetHeight) |->
               ReadPixel(source.data,
                         SrcIdx(source, targetWidth, targetHeight, k - 1))]]

Max(a, b) == IF a >= b THEN a ELSE b

\* pixelmatch: the number of positions at which the two buffers differ
pixelmatch(data1, data2, width, height) ==
  Cardinality({k \in 0..(width * height - 1) :
                 ReadPixel(data1, k) # ReadPixel(data2, k)})

\* compareScreenshots, up to the division: the two buffers handed to
\* pixelmatch and the two numbers the percentage is made of
compareScreenshots(img1, img2) ==
  LET width == Max(img1.width, img2.width)
      height == Max(img1.height, img2.height)
  IN Bind(IF img1.width # width \/ img1.height # height
            THEN resizePNG(img1, width, height) ELSE img1, LAMBDA resized1 :
     Bind(IF img2.width # width \/ img2.height # height
            THEN resizePNG(img2, width, height) ELSE img2, LAMBDA resized2 :
       [width |-> width, height |-> height,
        resized1 |-> resized1, resized2 |-> resized2,
        mismatchedPixels |-> pixelmatch(resized1.data, resized2.data, width, height),
        totalPixels |-> width * height]))

\* images of one colour, and images in which no two pixels are alike
Image(width, height, pattern) ==
  [width |-> width, height |-> height,
   data |-> [k \in 1..(width * height) |-> IF pattern = "each" THEN k ELSE 0]]

Patterns == {"one", "each"}

\* every pixel of img repeated fx times in its row and fy times in its column
Enlarged(img, fx, fy) ==
  [width |-> img.width * fx, height |-> img.height * fy,
   data |-> [k \in 1..(img.width * fx * img.height * fy) |->
               LET x == (k - 1) % (img.width * fx)
                   y == (k - 1) \div (img.width * fx)
               IN img.data[(y \div fy) * img.width + (x \div fx) + 1]]]

Sides == 1..MaxSide

Factors == 1..MaxFactor

\* pairs of screenshots: any two sizes and patterns, and two enlargements of
\* one picture
ImagePairs ==
  {<<Image(w1, h1, p1), Image(w2, h2, p2)>> :
     w1 \in Sides, h1 \in Sides, w2 \in Sides, h2 \in Sides,
     p1 \in Patterns, p2 \in Patterns}
  \cup
  {<<Enlarged(Image(w, h, p), f[1], f[2]), Enlarged(Image(w, h, p), f[3], f[4])>> :
     w \in Sides, h \in Sides, p \in Patterns, f \in [1..4 -> Factors]}

\* const mismatch = await this.compareScreenshots(original, generated, diff)
CompareCall ==
  /\ drv.mode = "images"
  /\ ~drv.compared
  /\ \E c \in {compareScreenshots(drv.img1, drv.img2)} :
       drv' = [drv EXCEPT !.compared = TRUE, !.comparison = <<c>>]
  /\ UNCHANGED ctl

NextDiff == CompareCall

InitDiff ==
  /\ pool = {}
  /\ env = [samples |-> {}, pages |-> {}, testMayThrow |-> FALSE]
  /\ browser = 0
  /\ browsers = <<>>
  /\ pc = [p \in Procs |-> "idle"]
  /\ fr = IdleFrames
  /\ \E pair \in ImagePairs :
       drv = [mode |-> "images", img1 |-> pair[1], img2 |-> pair[2],
              compared |-> FALSE, comparison |-> <<>>]

SpecDiff == InitDiff /\ [][NextDiff]_vars

-----------------------------------------------------------------------------
(* A caller of determineSectionType, for class lists that contain up to    *)
(* MaxKeywords of the keywords                                             *)

MaxKeywords == 2

ClassKeywords ==
  {"header", "footer", "hero", "banner", "offer", "card", "cta", "action",
   "feature", "testimonial", "review"}

HtmlKeywords == {"<header", "<footer"}

\* const sectionType = this.determineSectionType(content, classes)
ClassifyCall ==
  /\ drv.mode = "classify"
  /\ drv.type = ""
  /\ drv' = [drv EXCEPT !.type = determineSectionType(drv.html, drv.classes)]
  /\ UNCHANGED ctl

NextClassify == ClassifyCall

InitClassify ==
  /\ pool = {}
  /\ env = [samples |-> {}, pages |-> {}, testMayThrow |-> FALSE]
  /\ browser = 0
  /\ browsers = <<>>
  /\ pc = [p \in Procs |-> "idle"]
  /\ fr = IdleFrames
  /\ \E classes \in {c \in SUBSET ClassKeywords : Cardinality(c) <= MaxKeywords},
        html \in SUBSET HtmlKeywords :
       drv = [mode |-> "classify", classes |-> classes, html |-> html, type |-> ""]

SpecClassify == InitClassify /\ [][NextClassify]_vars

-----------------------------------------------------------------------------
(* A caller of buildTypographyPlan, for up to MaxEntries computed styles   *)

MaxEntries == 2

StyleEntries ==
  [tag : {"h1", "h2", "h3", "p", "a"},
   fontSize : {AbsentValue, Len2(3200, "px"), Len2(4000, "px")},
   fontWeight : {"", "800"},
   lineHeight : {AbsentValue, Num(11, 10, "")}]

\* const typography = this.buildTypographyPlan(pageContent.computedStyles)
TypographyCall ==
  /\ drv.mode = "styles"
  /\ drv.typography = <<>>
  /\ drv' = [drv EXCEPT !.typography = <<buildTypographyPlan(drv.computedStyles)>>]
  /\ UNCHANGED ctl

NextTypography == TypographyCall

InitTypography ==
  /\ pool = {}
  /\ env = [samples |-> {}, pages |-> {}, testMayThrow |-> FALSE]
  /\ browser = 0
  /\ browsers = <<>>
  /\ pc = [p \in Procs |-> "idle"]
  /\ fr = IdleFrames
  /\ \E computedStyles \in UNION {[1..n -> StyleEntries] : n \in 0..MaxEntries} :
       drv = [mode |-> "styles", computedStyles |-> computedStyles,
              typography |-> <<>>]

SpecTypography == InitTypography /\ [][NextTypography]_vars

\* every continuation that is ready is eventually run by the event loop, and
\* every external call (launch, navigation, screenshot, close) returns
Resume(p) ==
  \/ LaunchDone(p)
  \/ RobotsDone(p)
  \/ RenderDone(p)
  \/ HtmlContext(p)
  \/ TestDone(p)
  \/ CloseDone(p)

FairSpec == Init /\ [][Next]_vars /\ \A p \in Procs : WF_vars(Resume(p))

-----------------------------------------------------------------------------
(* Properties of the controller loops *)

Count(steps, name) == Cardinality({i \in DOMAIN steps : steps[i] = name})

SumOf(it) == it.desktopMismatch + it.mobileMismatch

MinSum(its) ==
  LET sums == {SumOf(its[i]) : i \in DOMAIN its}
  IN CHOOSE m \in sums : \A x \in sums : m <= x

\* C1: when processJob's loop has stopped after k >= 1 scored iterations, the
\* sum finalDesktopMismatch + finalMobileMismatch of the recorded best candidate
\* is the minimum of the sums of the k iterations, also when the loop stopped on
\* a passing iteration
C1_BestIsMinimum ==
  \A p \in Jobs :
    (fr[p].result.set /\ fr[p].iterations # <<>>) =>
      fr[p].result.finalDesktopMismatch + fr[p].result.finalMobileMismatch
        = MinSum(fr[p].iterations)

\* at most MAX_ITERATIONS Generate and Score steps, and no Generate, Score or
\* Adjust step after the first passing verdict
C2_Bounded ==
  \A p \in Procs :
    /\ Count(fr[p].steps, "generate") <= MAX_ITERATIONS
    /\ Count(fr[p].steps, "score") <= MAX_ITERATIONS
    /\ fr[p].passedAt > 0 =>
         \A i \in DOMAIN fr[p].steps :
           i > fr[p].passedAt => fr[p].steps[i] \notin {"generate", "score", "adjust"}

\* C2: both loops (processJob and runVerification) always halt: every started
\* invocation reaches its end, performs at most 3 Generate/Score cycles, and
\* takes no Generate, Score or Adjust step after the first passing verdict
C2_LoopsHalt ==
  /\ []C2_Bounded
  /\ \A p \in Procs : (pc[p] # "idle") ~> (pc[p] = "done")

\* an invocation that stopped on a passing second iteration
C2_Witness ==
  \E p \in Procs :
    /\ pc[p] = "done"
    /\ Len(fr[p].iterations) = 2
    /\ fr[p].passedAt > 0
    /\ fr[p].steps[Len(fr[p].steps)] = "complete"

\* C3: two jobs in flight share no mutable state: the scores of every
\* iteration of a job and its terminal status are those it gets when it runs
\* alone, also when the other job's close() closes the shared browser
C3_JobsIndependent ==
  \A p \in Jobs :
    /\ \A i \in DOMAIN fr[p].results : fr[p].results[i] = test(fr[p].oracle[i])
    /\ fr[p].ended =>
         fr[p].status = IF fr[p].renderOutcome = "ok" THEN "completed" ELSE "failed"

\* C4: a failure of renderHtml or compareScreenshots inside test is not
\* propagated: the iteration is scored 100/100 with a failing verdict and the
\* loop goes on to Adjusting when iteration < 3, and to its terminal state
\* otherwise, instead of ending in the catch block
C4_TestFailureContained ==
  \A p \in Procs :
    \A i \in DOMAIN fr[p].results :
      ~fr[p].results[i].success =>
        /\ fr[p].results[i].desktopMismatch = 100 * ROUND_SCALE
        /\ fr[p].results[i].mobileMismatch = 100 * ROUND_SCALE
        /\ ~fr[p].results[i].passesThreshold
        /\ fr[p].iterations[i].desktopMismatch = 100 * ROUND_SCALE
        /\ fr[p].iterations[i].mobileMismatch = 100 * ROUND_SCALE
        /\ "fail" \notin Range(fr[p].steps)
        /\ IF i < MAX_ITERATIONS
             THEN fr[p].iterations[i].adjusted /\ Len(fr[p].oracle) > i
             ELSE fr[p].result.set /\ fr[p].result.success

\* the comparison of the first iteration threw, and the second iteration has
\* been generated from the adjusted plan
C4_Witness ==
  \E p \in Procs :
    /\ Len(fr[p].results) >= 1
    /\ ~fr[p].results[1].success
    /\ ~fr[p].oracle[1].ok
    /\ fr[p].iterations[1].adjusted
    /\ fr[p].iteration = 2

\* C5: the verdict returned by test is true exactly when the returned
\* desktopMismatch (rounded to two decimals) is <= 6 and the returned
\* mobileMismatch is <= 8
C5_VerdictMatchesReturned ==
  \A p \in Procs :
    \A i \in DOMAIN fr[p].results :
      fr[p].results[i].passesThreshold <=>
        /\ fr[p].results[i].desktopMismatch <= DESKTOP_THRESHOLD * ROUND_SCALE
        /\ fr[p].results[i].mobileMismatch <= MOBILE_THRESHOLD * ROUND_SCALE

\* C6: whenever the controller enters Adjusting, the token list returned by
\* suggestAdjustments for the failing scores is not empty
C6_AdjustmentsNonEmpty ==
  \A p \in Procs :
    \A i \in DOMAIN fr[p].iterations :
      fr[p].iterations[i].adjusted => fr[p].iterations[i].adjustments # <<>>

-----------------------------------------------------------------------------
(* Properties of refine and generate *)

\* what refine must not touch: everything but the typography and the styles
\* and layout of the sections
Structure(value) ==
  [plan |-> value.plan,
   sections |-> [i \in DOMAIN value.sections |->
                   [value.sections[i] EXCEPT !.styles = <<>>, !.layout = <<>>]]]

\* the objects a plan is made of
Reach(h, p) == {p, h[p].typography} \cup Range(h[p].sections)

\* C7: refine preserves the structure of the Layout Model: the number, order,
\* id, type and order field of the sections and their elements with their
\* nesting, type, id, tag, content, src, alt and href are those of the input;
\* only section styles, section layout and typography may differ, after any
\* number of successive refine calls
C7_RefinePreservesStructure ==
  drv.mode = "plan" =>
    Structure(PlanValue(drv.heap, drv.plan)) = Structure(drv.base)

\* MaxRefines successive refine calls on the three-section plan, the first
\* and the last of which changed a value
C7_Witness ==
  /\ drv.mode = "plan"
  /\ drv.refines = MaxRefines
  /\ drv.snaps = <<>>
  /\ Len(drv.base.sections) = 3
  /\ drv.last.op = "refine"
  /\ PlanValue(drv.heap, drv.plan) # drv.last.value
  /\ drv.last.value # drv.base

\* C8: generate leaves the Layout Model it is given unchanged, the order of
\* layoutPlan.sections included, also when the sections are not sorted
C8_GenerateLeavesPlan ==
  (drv.mode = "plan" /\ drv.last.op = "generate") =>
    PlanValue(drv.heap, drv.last.plan) = drv.last.value

\* C9: refine works on a deep copy: when it returns its input plan has the
\* value it had before, the returned plan shares no object with it, and every
\* plan handed to generate earlier still has the value it had then
C9_RefineDeepCopy ==
  drv.mode = "plan" =>
    /\ drv.last.op = "refine" =>
         /\ PlanValue(drv.heap, drv.last.plan) = drv.last.value
         /\ Reach(drv.heap, drv.plan) \cap Reach(drv.heap, drv.last.plan) = {}
    /\ \A i \in DOMAIN drv.snaps :
         PlanValue(drv.heap, drv.snaps[i].plan) = drv.snaps[i].value

\* a refine call that changed its copy, after the input had been generated
C9_Witness ==
  /\ drv.mode = "plan"
  /\ drv.last.op = "refine"
  /\ drv.last.adjustments # <<>>
  /\ drv.snaps # <<>>
  /\ drv.snaps[Len(drv.snaps)].plan = drv.last.plan
  /\ PlanValue(drv.heap, drv.plan) # drv.last.value

-----------------------------------------------------------------------------
(* Properties of the emitted document *)

Entity(c) ==
  CASE c = "&"  -> <<"&", "a", "m", "p", ";">>
    [] c = "<"  -> <<"&", "l", "t", ";">>
    [] c = ">"  -> <<"&", "g", "t", ";">>
    [] c = "\"" -> <<"&", "q", "u", "o", "t", ";">>
    [] c = "'"  -> <<"&", "#", "0", "3", "9", ";">>
    [] OTHER    -> <<c>>

RECURSIVE Encoded(_)
\* the text with each of the five characters replaced by its entity
Encoded(text) ==
  IF text = <<>> THEN <<>> ELSE Entity(Head(text)) \o Encoded(Tail(text))

RECURSIVE NodeValues(_)
\* the values a node and its descendants carry from the page: attribute
\* values taken from a field of the element, and text content
NodeValues(node) ==
  {node.attrs[i].value : i \in {j \in DOMAIN node.attrs : node.attrs[j].from # ""}}
  \cup (IF node.text # <<>> THEN {node.text} ELSE {})
  \cup UNION {NodeValues(node.children[i]) : i \in DOMAIN node.children}

\* every value of the document that was taken from the page
PageValues(doc) ==
  {doc.title, doc.description}
  \cup UNION {{doc.sections[i].attrs[j].value : j \in DOMAIN doc.sections[i].attrs}
              \cup UNION {NodeValues(doc.sections[i].children[k]) :
                            k \in DOMAIN doc.sections[i].children} :
              i \in DOMAIN doc.sections}

\* C10: every string of the page that generate writes in text or attribute
\* position (content, alt, src, href, data attribute values, the section id
\* as data-offer-id, title, description) appears with & < > " ' replaced by
\* their entities
C10_PageTextEscaped ==
  (drv.mode = "text" /\ drv.html # <<>> /\ drv.text # <<>>) =>
    \A value \in PageValues(drv.html[1]) : value = Encoded(drv.text)

\* C11: whatever the order of the sections array, the sections appear in the
\* emitted document in strictly ascending order of their order field: the
\* k-th emitted section is the markup of the section that has exactly k - 1
\* sections of smaller order
C11_SectionsAscending ==
  (drv.mode = "plan" /\ drv.last.op = "generate") =>
    LET secs == drv.last.value.sections
    IN /\ Len(drv.html.sections) = Len(secs)
       /\ \A k \in DOMAIN drv.html.sections :
            \E i \in DOMAIN secs :
              /\ drv.html.sections[k] = generateSection(secs[i])
              /\ Cardinality({j \in DOMAIN secs : secs[j].order < secs[i].order}) = k - 1

\* generate has returned for a plan whose array held the orders 2, 0, 1
C11_Witness ==
  /\ drv.mode = "plan"
  /\ drv.last.op = "generate"
  /\ Len(drv.last.value.sections) = 3
  /\ drv.last.value.sections[1].order = 2
  /\ drv.last.value.sections[2].order = 0
  /\ Len(drv.html.sections) = 3

\* the data-offer-id values on the tag of an emitted section
OfferIds(section) ==
  {section.attrs[i].value :
     i \in {j \in DOMAIN section.attrs : section.attrs[j].name = "data-offer-id"}}

\* C12: generateSection emits a data-offer-id attribute equal to the section's
\* id if and only if the section's type is offer-card; sections of every other
\* type, offer-list included, carry none
C12_OfferIdIffOfferCard ==
  (drv.mode = "text" /\ drv.html # <<>>) =>
    LET emitted == drv.html[1].sections[1]
        carried == {i \in DOMAIN emitted.attrs : emitted.attrs[i].name = "data-offer-id"}
    IN IF drv.sectionType = "offer-card"
         THEN Cardinality(carried) = 1 /\ OfferIds(emitted) = {drv.text}
         ELSE carried = {}

\* an offer-card section with a non-empty id has been emitted
C12_Witness ==
  /\ drv.mode = "text"
  /\ drv.html # <<>>
  /\ drv.sectionType = "offer-card"
  /\ Len(drv.text) = MaxTextLen
  /\ OfferIds(drv.html[1].sections[1]) = {drv.text}

RECURSIVE NodeAttrNames(_)
\* the attribute names on a node and its descendants
NodeAttrNames(node) ==
  {node.attrs[i].name : i \in DOMAIN node.attrs}
  \cup UNION {NodeAttrNames(node.children[i]) : i \in DOMAIN node.children}

\* some tag of the document carries a data-offer-id
HasOfferId(doc) ==
  \E i \in DOMAIN doc.sections :
    \/ OfferIds(doc.sections[i]) # {}
    \/ \E k \in DOMAIN doc.sections[i].children :
         "data-offer-id" \in NodeAttrNames(doc.sections[i].children[k])

\* the page has a block the section scan keeps whose class list contains
\* 'offer' or 'card'
RetainedOffer(page) ==
  \E i \in DOMAIN page.blocks :
    /\ page.blocks[i].length >= MIN_BLOCK_LENGTH
    /\ parseHtmlToElements(page.blocks[i].items) # <<>>
    /\ page.blocks[i].classAttr \cap {"offer", "card"} # {}

\* C13: end to end (analyze, then generate), for every page with a retained
\* block whose class list contains 'offer' or 'card' the generated document
\* contains an element carrying a data-offer-id attribute
C13_OffersWrapped ==
  \A p \in Procs :
    (fr[p].html.gen > 0 /\ RetainedOffer(fr[p].page)) => HasOfferId(fr[p].html.doc)

RECURSIVE ElementIds(_)
\* the ids of a list of elements and of the elements nested in them, one entry
\* for each element
ElementIds(elements) ==
  IF elements = <<>> THEN <<>>
  ELSE <<Head(elements).id>> \o ElementIds(Head(elements).children)
         \o ElementIds(Tail(elements))

RECURSIVE PlanElementIds(_)
PlanElementIds(sections) ==
  IF sections = <<>> THEN <<>>
  ELSE ElementIds(Head(sections).children) \o PlanElementIds(Tail(sections))

\* C14: in the plan analyze returns and in every plan refine makes of it, no
\* two elements have the same id, whether they are in one section or in two
C14_ElementIdsDistinct ==
  \A p \in Procs :
    fr[p].layoutPlan # 0 =>
      LET ids == PlanElementIds(PlanValue(fr[p].heap, fr[p].layoutPlan).sections)
      IN \A i, j \in DOMAIN ids : ids[i] = ids[j] => i = j

\* the first iteration whose sum is the least of all
EarliestBest(its) ==
  CHOOSE i \in DOMAIN its :
    /\ SumOf(its[i]) = MinSum(its)
    /\ \A j \in DOMAIN its : SumOf(its[j]) = MinSum(its) => i <= j

\* C15: in runVerification, once k >= 1 iterations are recorded the best sum
\* is the least of their sums, and bestIteration and the best HTML are those
\* of the first iteration that has this sum
C15_BestIsEarliestMinimum ==
  \A p \in Procs \ Jobs :
    fr[p].iterations # <<>> =>
      /\ fr[p].bestMismatch.desktop + fr[p].bestMismatch.mobile
           = MinSum(fr[p].iterations)
      /\ fr[p].bestIteration = EarliestBest(fr[p].iterations)
      /\ fr[p].bestHtml.gen = EarliestBest(fr[p].iterations)

\* the same, for the runs in which some iteration scored below 100 + 100
C15_EarliestAmongScored ==
  \A p \in Procs \ Jobs :
    (fr[p].iterations # <<>> /\ MinSum(fr[p].iterations) < 200 * ROUND_SCALE) =>
      /\ fr[p].bestMismatch.desktop + fr[p].bestMismatch.mobile
           = MinSum(fr[p].iterations)
      /\ fr[p].bestIteration = EarliestBest(fr[p].iterations)
      /\ fr[p].bestHtml.gen = EarliestBest(fr[p].iterations)

\* every verdict returned so far is a failing one
AllFailed(f) == \A i \in DOMAIN f.results : ~f.results[i].passesThreshold

\* C16: when MAX_ITERATIONS scores have been returned and all are failing, there
\* have been exactly MAX_ITERATIONS Generate and Score steps and
\* MAX_ITERATIONS - 1 Adjust steps, the third Score is followed by the
\* completion only, and the invocation has ended as completed (the harness:
\* success = true), not as failed
C16_ExhaustionCompletes ==
  \A p \in Procs :
    (Len(fr[p].results) = MAX_ITERATIONS /\ AllFailed(fr[p])) =>
      LET steps == fr[p].steps
      IN /\ Count(steps, "generate") = MAX_ITERATIONS
         /\ Count(steps, "score") = MAX_ITERATIONS
         /\ Count(steps, "adjust") = MAX_ITERATIONS - 1
         /\ Count(steps, "fail") = 0
         /\ steps[Len(steps) - 1] = "score"
         /\ steps[Len(steps)] = "complete"
         /\ fr[p].ended
         /\ fr[p].result.set /\ fr[p].result.success
         /\ p \in Jobs => fr[p].status = "completed"
         /\ p \in Jobs => fr[p].statusLog[Len(fr[p].statusLog)] = "completed"

\* a job whose three comparisons all ran and all failed the thresholds
C16_Witness ==
  \E p \in Jobs :
    /\ Len(fr[p].results) = MAX_ITERATIONS
    /\ \A i \in DOMAIN fr[p].results :
         fr[p].results[i].success /\ ~fr[p].results[i].passesThreshold
    /\ fr[p].status = "completed"
    /\ Count(fr[p].steps, "adjust") = MAX_ITERATIONS - 1

\* render has returned success = false to the invocation
RenderFailed(p) ==
  \/ fr[p].renderOutcome = "robots" /\ pc[p] \notin {"idle", "r_launch", "robots"}
  \/ fr[p].renderOutcome = "navigation"
       /\ pc[p] \notin {"idle", "r_launch", "robots", "r_page"}

Retained(page) ==
  {i \in DOMAIN page.blocks :
     /\ page.blocks[i].length >= MIN_BLOCK_LENGTH
     /\ parseHtmlToElements(page.blocks[i].items) # <<>>}

\* C18: for a page of which analyze retains no block the returned plan has
\* exactly one section, of type content and order 0
C18_FallbackSection ==
  (drv.mode = "page" /\ drv.analyzed /\ Retained(drv.page) = {}) =>
    LET sections == PlanValue(drv.heap, drv.plan).sections
    IN /\ Len(sections) = 1
       /\ sections[1].type = "content"
       /\ sections[1].order = 0

\* analyze has returned for a page with MaxBlocks blocks, none of them retained,
\* some for their length and some for having no element
C18_Witness ==
  /\ drv.mode = "page" /\ drv.analyzed /\ drv.refines = 0
  /\ Len(drv.page.blocks) = MaxBlocks
  /\ Retained(drv.page) = {}
  /\ ShortBlock \in Range(drv.page.blocks)
  /\ BareBlock \in Range(drv.page.blocks)
  /\ Len(PlanValue(drv.heap, drv.plan).sections) = 1

\* the retained blocks of a page, in scan order
RetainedSeq(page) ==
  LET kept == Retained(page)
  IN [k \in 1..Cardinality(kept) |->
        CHOOSE i \in kept : Cardinality({j \in kept : j < i}) = k - 1]

\* C19: in the plan analyze returns and in every plan refine makes of it the
\* order values of the sections are pairwise distinct; when blocks are
\* retained there is one section for each, in scan order, and the k-th of
\* them has order k - 1, whatever blocks were discarded before it
C19_OrdersDistinct ==
  (drv.mode = "page" /\ drv.analyzed) =>
    LET sections == PlanValue(drv.heap, drv.plan).sections
        kept == RetainedSeq(drv.page)
    IN /\ \A i, j \in DOMAIN sections :
            sections[i].order = sections[j].order => i = j
       /\ kept # <<>> =>
            /\ Len(sections) = Len(kept)
            /\ \A k \in DOMAIN kept :
                 /\ sections[k].order = k - 1
                 /\ sections[k].children
                      = parseHtmlToElements(drv.page.blocks[kept[k]].items)

\* MaxRefines refinements of the plan of a page whose first block was
\* discarded and whose other blocks were retained
C19_Witness ==
  /\ drv.mode = "page" /\ drv.analyzed /\ drv.refines = MaxRefines
  /\ Len(drv.page.blocks) = MaxBlocks
  /\ 1 \notin Retained(drv.page)
  /\ Cardinality(Retained(drv.page)) = MaxBlocks - 1
  /\ Len(PlanValue(drv.heap, drv.plan).sections) = MaxBlocks - 1

\* C20: two calls of generate with the same title and description return the
\* same document when they are given plans of equal value, and when they are
\* given the same plan object, the second call directly after the first
\* included
C20_GenerateDeterministic ==
  drv.mode = "plan" =>
    \A i, j \in DOMAIN drv.snaps :
      (drv.snaps[i].input = drv.snaps[j].input \/ drv.snaps[i].plan = drv.snaps[j].plan)
        => drv.snaps[i].html = drv.snaps[j].html

\* generate called twice in a row on the plan whose sections are not sorted:
\* the first call reordered the array the second call reads
C20_Witness ==
  /\ drv.mode = "plan"
  /\ drv.last.op = "generate" /\ drv.again
  /\ Len(drv.snaps) >= 2
  /\ LET n == Len(drv.snaps)
     IN /\ drv.snaps[n].plan = drv.snaps[n - 1].plan
        /\ drv.snaps[n].input # drv.snaps[n - 1].input
        /\ Len(drv.snaps[n].html.sections) = 3

Divides(a, b) == b % a = 0

\* the least common multiple of two sides
Lcm(a, b) == CHOOSE m \in 1..(a * b) :
               /\ Divides(a, m) /\ Divides(b, m)
               /\ \A n \in 1..(a * b) : (Divides(a, n) /\ Divides(b, n)) => m <= n

\* two images show the same picture: repeating the pixels of each up to the
\* least size that is a multiple of both sizes gives the same image
EqualContent(img1, img2) ==
  LET w == Lcm(img1.width, img2.width)
      h == Lcm(img1.height, img2.height)
  IN Enlarged(img1, w \div img1.width, h \div img1.height)
       = Enlarged(img2, w \div img2.width, h \div img2.height)

\* C21: two images that show the same picture in different sizes, two images
\* of one colour among them, are brought to a common size and have a mismatch
\* of 0 pixels, hence of 0%
C21_EqualContentNoMismatch ==
  (drv.mode = "images" /\ drv.compared /\ EqualContent(drv.img1, drv.img2)) =>
    LET c == drv.comparison[1]
    IN /\ c.resized1.width = c.resized2.width
       /\ c.resized1.height = c.resized2.height
       /\ c.mismatchedPixels = 0

\* a picture of several colours, wider in the first image and higher in the
\* second, so that both were resized
C21_Witness ==
  /\ drv.mode = "images" /\ drv.compared
  /\ EqualContent(drv.img1, drv.img2)
  /\ drv.img1.width > drv.img2.width
  /\ drv.img1.height < drv.img2.height
  /\ Cardinality(Range(drv.img1.data)) > 1
  /\ drv.comparison[1].mismatchedPixels = 0

\* every pixel of the buffer made of img for the comparison is copied from
\* a pixel of img
CopiedInBounds(img, resized) ==
  \A k \in 0..(resized.width * resized.height - 1) :
    LET srcX == SrcCoord(k % resized.width, img.width, resized.width)
        srcY == SrcCoord(k \div resized.width, img.height, resized.height)
    IN /\ srcX \in 0..(img.width - 1)
       /\ srcY \in 0..(img.height - 1)
       /\ resized.data[k + 1] = img.data[srcY * img.width + srcX + 1]

\* C30: the two buffers given to the pixel comparator both have the larger
\* width and the larger height of the two images; an image that has these
\* dimensions is given as it is, and every pixel of a resized image is copied
\* from a coordinate inside the image it is made of
C30_BuffersSameSize ==
  (drv.mode = "images" /\ drv.compared) =>
    LET c == drv.comparison[1]
        Fits(img, resized) ==
          /\ resized.width = Max(drv.img1.width, drv.img2.width)
          /\ resized.height = Max(drv.img1.height, drv.img2.height)
          /\ Len(resized.data) = resized.width * resized.height
          /\ (img.width = resized.width /\ img.height = resized.height)
               => resized = img
          /\ CopiedInBounds(img, resized)
          /\ Undefined \notin Range(resized.data)
    IN /\ c.width = c.resized1.width /\ c.height = c.resized1.height
       /\ Fits(drv.img1, c.resized1)
       /\ Fits(drv.img2, c.resized2)

\* an image of MaxSide by 1 pixels, all different, compared with one of
\* MaxSide - 1 by MaxSide pixels: both are resized, by ratios that are not
\* whole numbers
C30_Witness ==
  /\ drv.mode = "images" /\ drv.compared
  /\ drv.img1.width = MaxSide /\ drv.img1.height = 1
  /\ drv.img2.width = MaxSide - 1 /\ drv.img2.height = MaxSide
  /\ Cardinality(Range(drv.img1.data)) = MaxSide
  /\ Cardinality(Range(drv.img2.data)) = MaxSide * (MaxSide - 1)
  /\ drv.comparison[1].resized2.width = MaxSide

\* C22: when an invocation has completed (the harness: returned success =
\* true), the best HTML it emits is the document of one of its Generate steps,
\* not the empty placeholder, and the harness reports the index of that step
\* as the best iteration
C22_BestIsGenerated ==
  \A p \in Procs :
    (fr[p].result.set /\ fr[p].result.success) =>
      /\ fr[p].result.htmlContent.gen \in 1..Count(fr[p].steps, "generate")
      /\ fr[p].result.htmlContent # NoHtml
      /\ p \notin Jobs => fr[p].result.bestIteration = fr[p].result.htmlContent.gen

\* C23: once the status of a job is completed or failed it never changes
\* again, also when close() rejects in the finally block
C23_TerminalStatusAbsorbing ==
  [][\A p \in Jobs :
       fr[p].status \in {"completed", "failed"} => fr'[p].status = fr[p].status]_vars

\* C24: every browser that init() has launched is the one this.browser refers
\* to, or has been closed
C24_NoBrowserLeaked ==
  \A b \in DOMAIN browsers : b = browser \/ browsers[b] = "closed"

\* the padding of every section, where it was a number before the call, is a
\* number after it and has not gone up (dir = -1) or down (dir = 1)
PaddingMoved(before, after, dir) ==
  \A i \in DOMAIN before.sections :
    LET b == before.sections[i].styles.padding
        a == after.sections[i].styles.padding
    IN b.kind = "num" =>
         /\ a.kind = "num"
         /\ dir * a.n * b.d >= dir * b.n * a.d

\* C25: a refine call whose only spacing token is spacing:decrease raises the
\* padding of no section, and one whose only spacing token is
\* spacing:increase lowers the padding of no section
C25_SpacingDirection ==
  (drv.mode = "plan" /\ drv.last.op = "refine") =>
    LET tokens == Range(drv.last.adjustments)
        spacing == {t \in tokens : Includes(t, "spacing")}
        after == PlanValue(drv.heap, drv.plan)
    IN /\ spacing = {"spacing:decrease"} => PaddingMoved(drv.last.value, after, -1)
       /\ spacing = {"spacing:increase"} => PaddingMoved(drv.last.value, after, 1)

\* C26: in both controllers every list of adjustments that was applied is the
\* one suggestAdjustments gives for iteration 1 or 2 and the scores of that
\* iteration; there is none for iteration MAX_ITERATIONS, and the token
\* line-height:decrease, which only the third vocabulary has, is never applied
C26_ThirdVocabularyUnused ==
  \A p \in Procs :
    /\ Count(fr[p].steps, "adjust") < MAX_ITERATIONS
    /\ \A k \in DOMAIN fr[p].iterations :
         LET it == fr[p].iterations[k]
         IN it.adjusted =>
              /\ it.iteration \in 1..(MAX_ITERATIONS - 1)
              /\ it.adjustments = suggestAdjustments(it.desktopMismatch,
                                                     it.mobileMismatch, it.iteration)
              /\ "line-height:decrease" \notin Range(it.adjustments)

\* the harness after three scores that fail both thresholds: two adjustments,
\* the second with the vocabulary of iteration 2, none after the third score
C26_Witness ==
  \E p \in Procs \ Jobs :
    /\ Len(fr[p].iterations) = MAX_ITERATIONS
    /\ fr[p].iterations[2].adjusted
    /\ fr[p].iterations[2].adjustments
         = <<"spacing:decrease", "alignment:center", "font:smaller", "card-width:wider">>
    /\ ~fr[p].iterations[MAX_ITERATIONS].adjusted
    /\ SumOf(fr[p].iterations[MAX_ITERATIONS]) > 0
    /\ fr[p].ended

\* the statuses that a status may change to in one job
StatusAfter(status) ==
  CASE status = "pending"    -> {"rendering"}
    [] status = "rendering"  -> {"analyzing", "failed"}
    [] status = "analyzing"  -> {"generating", "failed"}
    [] status = "generating" -> {"testing", "failed"}
    [] status = "testing"    -> {"refining", "completed", "failed"}
    [] status = "refining"   -> {"generating", "failed"}
    [] OTHER                 -> {}

\* the plan a refine call returns for a plan of value v, as a value
RefinedValue(v, adjustments) ==
  LET h == MakePlan(v.typography, v.sections)
      refined == refine(h, Len(h), adjustments)
  IN PlanValue(refined.heap, refined.plan)

\* C27: the statuses of a job follow each other as pending, rendering,
\* analyzing, then at most MAX_ITERATIONS rounds of generating and testing
\* with refining between two rounds, then completed; failed follows a status
\* that is not terminal only. There is one Analyze step at most, refining
\* follows a failing verdict of an iteration below MAX_ITERATIONS only, and
\* the Generate step of iteration i + 1 reads the plan that the refine of
\* iteration i returned
C27_StepsSequential ==
  \A p \in Jobs :
    LET log == fr[p].statusLog
        f == fr[p]
    IN /\ log[1] = "pending"
       /\ \A k \in 1..(Len(log) - 1) :
            log[k + 1] # log[k] => log[k + 1] \in StatusAfter(log[k])
       /\ Count(log, "generating") <= MAX_ITERATIONS
       /\ Count(log, "refining") = Count(f.steps, "adjust")
       /\ Count(f.steps, "analyze") <= 1
       /\ \A k \in DOMAIN f.iterations :
            f.iterations[k].adjusted =>
              /\ k < MAX_ITERATIONS
              /\ ~f.results[k].passesThreshold
              /\ k + 1 \in DOMAIN f.plans =>
                   /\ f.plans[k + 1].addr # f.plans[k].addr
                   /\ f.plans[k + 1].value
                        = RefinedValue(f.plans[k].value, f.iterations[k].adjustments)
       /\ \A k \in 1..(Len(f.plans) - 1) : f.iterations[k].adjusted

\* the keyword rules in their order: what matches, and the type given
TypeRules ==
  <<[keys |-> {"header", "<header"},     type |-> "header"],
    [keys |-> {"footer", "<footer"},     type |-> "footer"],
    [keys |-> {"hero", "banner"},        type |-> "hero"],
    [keys |-> {"offer", "card"},         type |-> "offer-list"],
    [keys |-> {"cta", "action"},         type |-> "cta"],
    [keys |-> {"feature"},               type |-> "features"],
    [keys |-> {"testimonial", "review"}, type |-> "testimonials"]>>

\* the rules that match a class list and an inner markup
Matching(html, classes) ==
  {i \in DOMAIN TypeRules : TypeRules[i].keys \cap (classes \cup html) # {}}

\* C28: determineSectionType returns the type of the first rule that matches,
\* in the order header, footer, hero/banner, offer/card, cta/action, feature,
\* testimonial/review, and content exactly when no rule matches
C28_FirstRuleWins ==
  (drv.mode = "classify" /\ drv.type # "") =>
    LET matching == Matching(drv.html, drv.classes)
    IN /\ matching = {} <=> drv.type = "content"
       /\ matching # {} =>
            \E i \in matching :
              /\ \A j \in matching : i <= j
              /\ drv.type = TypeRules[i].type

\* a class list with footer and hero is typed footer
C28_Witness ==
  /\ drv.mode = "classify"
  /\ drv.classes = {"footer", "hero"}
  /\ drv.html = {}
  /\ drv.type = "footer"

\* the first entry for a tag, as the only member of a set, or no entry
FirstEntry(computedStyles, tag) ==
  {computedStyles[i] : i \in {i \in DOMAIN computedStyles :
                                /\ computedStyles[i].tag = tag
                                /\ \A j \in 1..(i - 1) : computedStyles[j].tag # tag}}

\* C29: the size, weight and line height of a typography level are those of
\* the first computed style whose selector begins with the tag of the level,
\* where that style has them; the entries after it are ignored
C29_FirstEntryWins ==
  (drv.mode = "styles" /\ drv.typography # <<>>) =>
    LET plan == drv.typography[1]
        From(level, tag, field, absent) ==
          \A e \in FirstEntry(drv.computedStyles, tag) :
            e[field] # absent => plan[level][field] = e[field]
    IN /\ From("h1", "h1", "fontSize", AbsentValue)
       /\ From("h1", "h1", "fontWeight", "")
       /\ From("h1", "h1", "lineHeight", AbsentValue)
       /\ From("h2", "h2", "fontSize", AbsentValue)
       /\ From("h2", "h2", "fontWeight", "")
       /\ From("h3", "h3", "fontSize", AbsentValue)
       /\ From("h3", "h3", "fontWeight", "")
       /\ From("body", "p", "fontSize", AbsentValue)
       /\ From("body", "p", "lineHeight", AbsentValue)

====
